---- MODULE Spec2Model ----
(***************************************************************************)
(* Collaborative task-management backend: the Express controllers for      *)
(* projects, tasks and registration, modelled over a document store.       *)
(*                                                                         *)
(* Every controller is an operator over the current store and the request  *)
(* (authenticated user, path id, body) that yields the HTTP status and the *)
(* store after the handler ran; the action of the same handler applies it. *)
(* Documents are kept in partial functions from ObjectId to document.      *)
(* A request body is a record holding exactly the keys the client sent.    *)
(***************************************************************************)
EXTENDS Naturals, Sequences, FiniteSets, TLC

VARIABLES projects, tasks, users, resp, inflight, scn

vars == <<projects, tasks, users, resp, inflight, scn>>

(* ------------------------------ bounds --------------------------------- *)

\* addProjectMember is explored on member lists shorter than this
MaxMembers == 2
\* addComment is explored on comment sequences shorter than this
MaxComments == 1

(* ------------------------------ domains -------------------------------- *)

\* ids of the authenticated requesters (req.user._id)
Users == {"u1", "u2", "u3"}
\* requesters that create projects in the explored runs
Creators == {"u1", "u2"}
\* well-formed ObjectIds the Project collection hands out
ProjectIds == {"p1", "p2"}
\* well-formed ObjectIds the Task collection hands out
TaskIds == {"t1"}
\* well-formed ObjectIds the User collection hands out at registration
UserIds == {"u1", "u2", "u3"}
\* a path parameter that is no ObjectId
MalformedId == "not-an-id"

\* a key the request did not carry (JS undefined)
Undefined == "undefined"


(* --------------------------- store helpers ----------------------------- *)

\* mongoose.Types.ObjectId.isValid
ObjectIdIsValid(id) == id # MalformedId

\* Model.findById found a document (the id is castable and stored)
Exists(store, id) == id \in DOMAIN store

\* document.deleteOne()
DeleteOne(store, id) == [k \in (DOMAIN store) \ {id} |-> store[k]]

\* document.save() / Model.create(): the document is stored under its id
Save(store, id, doc) == [k \in (DOMAIN store) \cup {id} |-> IF k = id THEN doc ELSE store[k]]

\* req.body.<key>, undefined when the client did not send it
Field(body, key) == IF key \in DOMAIN body THEN body[key] ELSE Undefined

HasKey(body, key) == key \in DOMAIN body

\* variant of Or that falls back only when the value is undefined (JS  a ?? b)
Or_undefinedOnly(a, b) == IF a = Undefined THEN b ELSE a

\* JS  a || b  on string-valued fields: undefined and "" are falsy
Or(a, b) == IF a = Undefined \/ a = "" THEN b ELSE a

\* MongooseArray.includes / a query on an array field: some element equals id
Includes(members, id) == \E i \in 1..Len(members) : members[i] = id

\* variant of Filter that drops only the first matching element
RECURSIVE Filter_firstOnly(_, _)
Filter_firstOnly(s, uid) ==
  IF s = <<>> THEN <<>>
  ELSE IF Head(s) # uid THEN <<Head(s)>> \o Filter_firstOnly(Tail(s), uid)
       ELSE Tail(s)

\* Array.prototype.filter
RECURSIVE Filter(_, _)
Filter(s, uid) ==
  IF s = <<>> THEN <<>>
  ELSE IF Head(s) # uid THEN <<Head(s)>> \o Filter(Tail(s), uid)
       ELSE Filter(Tail(s), uid)

Range(s) == {s[i] : i \in 1..Len(s)}

(* ------------------------ authorization predicates --------------------- *)

\* project.owner.toString() === req.user._id.toString()
isOwner(project, u) == project.owner = u

\* project.members.map(m => m.toString()).includes(req.user._id.toString())
isMember(project, u) == Includes(project.members, u)

(* ------------------------- project controller -------------------------- *)

\* variant of getProjects whose query leaves out the members clause
getProjects_ownedOnly(u) ==
  [status |-> 200,
   data |-> {id \in DOMAIN projects : projects[id].owner = u},
   projects |-> projects]

\* Project.find({$or: [{owner}, {members}]})
getProjects(u) ==
  [status |-> 200,
   data |-> {id \in DOMAIN projects :
               projects[id].owner = u \/ Includes(projects[id].members, u)},
   projects |-> projects]

\* variant of getProjectById that grants access to the owner alone
getProjectById_ownerOnly(u, id) ==
  IF ~ObjectIdIsValid(id)
    THEN [status |-> 400, projects |-> projects]
  ELSE IF ~Exists(projects, id)
    THEN [status |-> 404, projects |-> projects]
  ELSE IF ~isOwner(projects[id], u)
    THEN [status |-> 403, projects |-> projects]
  ELSE [status |-> 200, projects |-> projects]

\* variant of getProjectById without the isValid test: findById throws on the cast
getProjectById_noFormatCheck(u, id) ==
  IF ~ObjectIdIsValid(id)
    THEN [status |-> 500, projects |-> projects]
  ELSE IF ~Exists(projects, id)
    THEN [status |-> 404, projects |-> projects]
  ELSE IF ~isOwner(projects[id], u) /\ ~isMember(projects[id], u)
    THEN [status |-> 403, projects |-> projects]
  ELSE [status |-> 200, projects |-> projects]

getProjectById(u, id) ==
  IF ~ObjectIdIsValid(id)
    THEN [status |-> 400, projects |-> projects]
  ELSE IF ~Exists(projects, id)
    THEN [status |-> 404, projects |-> projects]
  ELSE IF ~isOwner(projects[id], u) /\ ~isMember(projects[id], u)
    THEN [status |-> 403, projects |-> projects]
  ELSE [status |-> 200, projects |-> projects]

\* default of the Project schema for a field the create call leaves out
ProjectDefaultStatus == "active"

\* the document Project.create receives from createProject
NewProject(u, body) ==
  [name |-> Field(body, "name"),
   description |-> Field(body, "description"),
   startDate |-> Field(body, "startDate"),
   endDate |-> Field(body, "endDate"),
   status |-> ProjectDefaultStatus,
   owner |-> u,
   members |-> IF HasKey(body, "members") THEN body.members ELSE <<>>]

\* newId is the ObjectId the store assigns to the new document
createProject(u, newId, body) ==
  [status |-> 201, projects |-> Save(projects, newId, NewProject(u, body))]

\* variant of MergeProject that also takes owner from the body
MergeProject_assignsOwner(project, body) ==
  [project EXCEPT
     !.name = Or(Field(body, "name"), @),
     !.description = Or(Field(body, "description"), @),
     !.status = Or(Field(body, "status"), @),
     !.startDate = Or(Field(body, "startDate"), @),
     !.endDate = Or(Field(body, "endDate"), @),
     !.owner = Or(Field(body, "owner"), @),
     !.members = IF HasKey(body, "members") THEN body.members ELSE @]

\* the six assignments of updateProject
MergeProject(project, body) ==
  [project EXCEPT
     !.name = Or(Field(body, "name"), @),
     !.description = Or(Field(body, "description"), @),
     !.status = Or(Field(body, "status"), @),
     !.startDate = Or(Field(body, "startDate"), @),
     !.endDate = Or(Field(body, "endDate"), @),
     !.members = IF HasKey(body, "members") THEN body.members ELSE @]

\* variant of updateProject that lets members update as well
updateProject_memberMayUpdate(u, id, body) ==
  IF ~ObjectIdIsValid(id)
    THEN [status |-> 500, projects |-> projects]
  ELSE IF ~Exists(projects, id)
    THEN [status |-> 404, projects |-> projects]
  ELSE IF projects[id].owner # u /\ ~Includes(projects[id].members, u)
    THEN [status |-> 403, projects |-> projects]
  ELSE [status |-> 200,
        projects |-> Save(projects, id, MergeProject(projects[id], body))]

updateProject(u, id, body) ==
  IF ~ObjectIdIsValid(id)
    THEN [status |-> 500, projects |-> projects]
  ELSE IF ~Exists(projects, id)
    THEN [status |-> 404, projects |-> projects]
  ELSE IF projects[id].owner # u
    THEN [status |-> 403, projects |-> projects]
  ELSE [status |-> 200,
        projects |-> Save(projects, id, MergeProject(projects[id], body))]

deleteProject(u, id) ==
  IF ~ObjectIdIsValid(id)
    THEN [status |-> 500, projects |-> projects]
  ELSE IF ~Exists(projects, id)
    THEN [status |-> 404, projects |-> projects]
  ELSE IF projects[id].owner # u
    THEN [status |-> 403, projects |-> projects]
  ELSE [status |-> 200, projects |-> DeleteOne(projects, id)]

\* variant of addProjectMember without the already-a-member test
addProjectMember_noDuplicateCheck(u, id, userId) ==
  IF ~ObjectIdIsValid(id)
    THEN [status |-> 500, projects |-> projects]
  ELSE IF ~Exists(projects, id)
    THEN [status |-> 404, projects |-> projects]
  ELSE IF projects[id].owner # u
    THEN [status |-> 403, projects |-> projects]
  ELSE [status |-> 200,
        projects |-> Save(projects, id,
                          [projects[id] EXCEPT !.members = Append(@, userId)])]

addProjectMember(u, id, userId) ==
  IF ~ObjectIdIsValid(id)
    THEN [status |-> 500, projects |-> projects]
  ELSE IF ~Exists(projects, id)
    THEN [status |-> 404, projects |-> projects]
  ELSE IF projects[id].owner # u
    THEN [status |-> 403, projects |-> projects]
  ELSE IF Includes(projects[id].members, userId)
    THEN [status |-> 400, projects |-> projects]
  ELSE [status |-> 200,
        projects |-> Save(projects, id,
                          [projects[id] EXCEPT !.members = Append(@, userId)])]

\* removeProjectMember run against the project store it is given
removeProjectMemberOn(store, u, id, userId) ==
  IF ~ObjectIdIsValid(id)
    THEN [status |-> 500, projects |-> store]
  ELSE IF ~Exists(store, id)
    THEN [status |-> 404, projects |-> store]
  ELSE IF store[id].owner # u
    THEN [status |-> 403, projects |-> store]
  ELSE [status |-> 200,
        projects |-> Save(store, id,
                          [store[id] EXCEPT !.members = Filter(@, userId)])]

removeProjectMember(u, id, userId) == removeProjectMemberOn(projects, u, id, userId)

(* --------------------------- task controller --------------------------- *)

\* variant of NotAuthorized that ignores the member list
NotAuthorized_ownerOnly(project, u) == project.owner # u

\* project.owner !== req.user._id  &&  !project.members.includes(req.user._id)
NotAuthorized(project, u) == project.owner # u /\ ~Includes(project.members, u)

\* Task.find({project: projectId}); data is the set of tasks returned
getProjectTasks(u, projectId) ==
  IF ~ObjectIdIsValid(projectId)
    THEN [status |-> 500, data |-> {}, tasks |-> tasks]
  ELSE IF ~Exists(projects, projectId)
    THEN [status |-> 404, data |-> {}, tasks |-> tasks]
  ELSE IF NotAuthorized(projects[projectId], u)
    THEN [status |-> 403, data |-> {}, tasks |-> tasks]
  ELSE [status |-> 200,
        data |-> {t \in DOMAIN tasks : tasks[t].project = projectId},
        tasks |-> tasks]

\* Task.find({assignedTo: req.user._id})
getMyTasks(u) ==
  [status |-> 200,
   data |-> {t \in DOMAIN tasks : tasks[t].assignedTo = u},
   tasks |-> tasks]

\* Project.findById(task.project) yields null for a deleted project, and the
\* read of project.owner then throws inside the try block
getTaskById(u, id) ==
  IF ~ObjectIdIsValid(id)
    THEN [status |-> 500, tasks |-> tasks]
  ELSE IF ~Exists(tasks, id)
    THEN [status |-> 404, tasks |-> tasks]
  ELSE IF ~Exists(projects, tasks[id].project)
    THEN [status |-> 500, tasks |-> tasks]
  ELSE IF NotAuthorized(projects[tasks[id].project], u)
    THEN [status |-> 403, tasks |-> tasks]
  ELSE [status |-> 200, tasks |-> tasks]

\* defaults of the Task schema for the fields the create call leaves out
TaskDefaultStatus == "pending"

TaskDefaultComments == <<>>

\* the document Task.create receives from createTask
\* variant of NewTask that takes createdBy from the body when it is sent
NewTask_createdByFromBody(u, body) ==
  [title |-> Field(body, "title"),
   description |-> Field(body, "description"),
   project |-> Field(body, "project"),
   priority |-> Field(body, "priority"),
   dueDate |-> Field(body, "dueDate"),
   assignedTo |-> Field(body, "assignedTo"),
   createdBy |-> Or(Field(body, "createdBy"), u),
   status |-> TaskDefaultStatus,
   comments |-> TaskDefaultComments]

NewTask(u, body) ==
  [title |-> Field(body, "title"),
   description |-> Field(body, "description"),
   project |-> Field(body, "project"),
   priority |-> Field(body, "priority"),
   dueDate |-> Field(body, "dueDate"),
   assignedTo |-> Field(body, "assignedTo"),
   createdBy |-> u,
   status |-> TaskDefaultStatus,
   comments |-> TaskDefaultComments]

\* newId is the ObjectId the store assigns to the new document
createTask(u, newId, body) ==
  IF ~ObjectIdIsValid(Field(body, "project"))
    THEN [status |-> 500, tasks |-> tasks]
  ELSE IF ~Exists(projects, Field(body, "project"))
    THEN [status |-> 404, tasks |-> tasks]
  ELSE IF NotAuthorized(projects[body.project], u)
    THEN [status |-> 403, tasks |-> tasks]
  ELSE [status |-> 201, tasks |-> Save(tasks, newId, NewTask(u, body))]

\* variant of MergeTask that also takes project from the body
MergeTask_assignsProject(task, body) ==
  [task EXCEPT
     !.title = Or(Field(body, "title"), @),
     !.description = Or(Field(body, "description"), @),
     !.status = Or(Field(body, "status"), @),
     !.priority = Or(Field(body, "priority"), @),
     !.dueDate = Or(Field(body, "dueDate"), @),
     !.assignedTo = Or(Field(body, "assignedTo"), @),
     !.project = Or(Field(body, "project"), @)]

\* the six assignments of updateTask
MergeTask(task, body) ==
  [task EXCEPT
     !.title = Or(Field(body, "title"), @),
     !.description = Or(Field(body, "description"), @),
     !.status = Or(Field(body, "status"), @),
     !.priority = Or(Field(body, "priority"), @),
     !.dueDate = Or(Field(body, "dueDate"), @),
     !.assignedTo = Or(Field(body, "assignedTo"), @)]

\* variant of updateTask that answers 403 for a task that is not stored
updateTask_forbiddenWhenMissing(u, id, body) ==
  IF ~ObjectIdIsValid(id)
    THEN [status |-> 500, tasks |-> tasks]
  ELSE IF ~Exists(tasks, id)
    THEN [status |-> 403, tasks |-> tasks]
  ELSE IF ~Exists(projects, tasks[id].project)
    THEN [status |-> 500, tasks |-> tasks]
  ELSE IF NotAuthorized(projects[tasks[id].project], u)
    THEN [status |-> 403, tasks |-> tasks]
  ELSE [status |-> 200, tasks |-> Save(tasks, id, MergeTask(tasks[id], body))]

updateTask(u, id, body) ==
  IF ~ObjectIdIsValid(id)
    THEN [status |-> 500, tasks |-> tasks]
  ELSE IF ~Exists(tasks, id)
    THEN [status |-> 404, tasks |-> tasks]
  ELSE IF ~Exists(projects, tasks[id].project)
    THEN [status |-> 500, tasks |-> tasks]
  ELSE IF NotAuthorized(projects[tasks[id].project], u)
    THEN [status |-> 403, tasks |-> tasks]
  ELSE [status |-> 200, tasks |-> Save(tasks, id, MergeTask(tasks[id], body))]

\* variant of deleteTask that lets every member of the project delete
deleteTask_memberMayDelete(u, id) ==
  IF ~ObjectIdIsValid(id)
    THEN [status |-> 500, tasks |-> tasks]
  ELSE IF ~Exists(tasks, id)
    THEN [status |-> 404, tasks |-> tasks]
  ELSE IF ~Exists(projects, tasks[id].project)
    THEN [status |-> 500, tasks |-> tasks]
  ELSE IF NotAuthorized(projects[tasks[id].project], u)
    THEN [status |-> 403, tasks |-> tasks]
  ELSE [status |-> 200, tasks |-> DeleteOne(tasks, id)]

\* variant of deleteTask that also lets the task's creator delete it
deleteTask_creatorMayDelete(u, id) ==
  IF ~ObjectIdIsValid(id)
    THEN [status |-> 500, tasks |-> tasks]
  ELSE IF ~Exists(tasks, id)
    THEN [status |-> 404, tasks |-> tasks]
  ELSE IF ~Exists(projects, tasks[id].project)
    THEN [status |-> 500, tasks |-> tasks]
  ELSE IF projects[tasks[id].project].owner # u /\ tasks[id].createdBy # u
    THEN [status |-> 403, tasks |-> tasks]
  ELSE [status |-> 200, tasks |-> DeleteOne(tasks, id)]

deleteTask(u, id) ==
  IF ~ObjectIdIsValid(id)
    THEN [status |-> 500, tasks |-> tasks]
  ELSE IF ~Exists(tasks, id)
    THEN [status |-> 404, tasks |-> tasks]
  ELSE IF ~Exists(projects, tasks[id].project)
    THEN [status |-> 500, tasks |-> tasks]
  ELSE IF projects[tasks[id].project].owner # u
    THEN [status |-> 403, tasks |-> tasks]
  ELSE [status |-> 200, tasks |-> DeleteOne(tasks, id)]

\* variant of addComment that puts the new comment first
addComment_prepend(u, id, body) ==
  IF ~ObjectIdIsValid(id)
    THEN [status |-> 500, tasks |-> tasks]
  ELSE IF ~Exists(tasks, id)
    THEN [status |-> 404, tasks |-> tasks]
  ELSE IF ~Exists(projects, tasks[id].project)
    THEN [status |-> 500, tasks |-> tasks]
  ELSE IF NotAuthorized(projects[tasks[id].project], u)
    THEN [status |-> 403, tasks |-> tasks]
  ELSE [status |-> 200,
        tasks |-> Save(tasks, id,
                       [tasks[id] EXCEPT !.comments =
                          <<[text |-> Field(body, "text"), author |-> u]>> \o @])]

addComment(u, id, body) ==
  IF ~ObjectIdIsValid(id)
    THEN [status |-> 500, tasks |-> tasks]
  ELSE IF ~Exists(tasks, id)
    THEN [status |-> 404, tasks |-> tasks]
  ELSE IF ~Exists(projects, tasks[id].project)
    THEN [status |-> 500, tasks |-> tasks]
  ELSE IF NotAuthorized(projects[tasks[id].project], u)
    THEN [status |-> 403, tasks |-> tasks]
  ELSE [status |-> 200,
        tasks |-> Save(tasks, id,
                       [tasks[id] EXCEPT !.comments =
                          Append(@, [text |-> Field(body, "text"), author |-> u])])]

(* ------------------------- auth controller ----------------------------- *)

\* variant of userExists whose query leaves out the username clause
userExists_emailOnly(body) ==
  \E id \in DOMAIN users : users[id].email = Field(body, "email")

\* User.findOne({$or: [{email}, {username}]})
userExists(body) ==
  \E id \in DOMAIN users :
     users[id].email = Field(body, "email") \/ users[id].username = Field(body, "username")

\* variant of userRole that stores whatever role the body carries
userRole_asRequested(body) == IF HasKey(body, "role") THEN body.role ELSE "user"

\* let userRole = 'user'; if (role === 'admin') userRole = 'admin'
userRole(body) == IF Field(body, "role") = "admin" THEN "admin" ELSE "user"

\* newId is the ObjectId the store assigns to the new document; of the stored
\* user the identity fields and the role are kept (password hash and names
\* take no part in any lookup)
register(newId, body) ==
  IF userExists(body)
    THEN [status |-> 400, users |-> users]
  ELSE [status |-> 201,
        users |-> Save(users, newId,
                       [username |-> Field(body, "username"),
                        email |-> Field(body, "email"),
                        role |-> userRole(body)])]

(* ------------------------------ requests ------------------------------- *)

\* a path id as a client sends it: a well-formed id or a malformed string
PathIds(ids) == ids \cup {MalformedId}

\* member lists a request body carries (a client may repeat an id)
MemberInputs == {<<>>, <<"u2">>, <<"u3", "u3">>}

\* a body without keys
EmptyBody == [k \in {} |-> Undefined]

CreateProjectBodies ==
  {[name |-> "n1", description |-> "d1"]}
    \cup {[name |-> "n1", description |-> "d1", members |-> m] : m \in MemberInputs}

FieldsBody ==
  [name |-> "n2", description |-> "", status |-> "completed",
   startDate |-> "s2", endDate |-> "e2"]

MembersBodies == {[members |-> m] : m \in MemberInputs}

UpdateProjectBodies == {EmptyBody, FieldsBody} \cup MembersBodies

CreateTaskBodies ==
  {[title |-> "a", project |-> p] : p \in PathIds(ProjectIds)}

UpdateTaskBodies == {EmptyBody, [status |-> "completed", title |-> ""]}

CommentBodies == {[text |-> "c"]}

RegisterBodies ==
  {[username |-> n, email |-> e] : n \in {"ana", "bob"}, e \in {"a@x", "b@x"}}
    \cup {[username |-> n, email |-> e, role |-> r] :
            n \in {"ana", "bob"}, e \in {"a@x", "b@x"}, r \in {"admin", "root"}}

Init ==
  /\ projects = [k \in {} |-> Undefined]
  /\ tasks = [k \in {} |-> Undefined]
  /\ users = [k \in {} |-> Undefined]
  /\ resp = [op |-> "none", status |-> 0]
  /\ inflight = [r \in {} |-> Undefined]
  /\ scn = [step |-> 0]

(* ------------------------------- actions -------------------------------- *)

GetProjects(u) ==
  /\ resp' = [op |-> "getProjects", status |-> getProjects(u).status]
  /\ UNCHANGED <<projects, tasks, users, inflight, scn>>

GetProjectById(u, id) ==
  /\ resp' = [op |-> "getProjectById", status |-> getProjectById(u, id).status]
  /\ UNCHANGED <<projects, tasks, users, inflight, scn>>

CreateProject(u, body) ==
  \E newId \in ProjectIds \ DOMAIN projects :
    LET r == createProject(u, newId, body) IN
      /\ projects' = r.projects
      /\ resp' = [op |-> "createProject", status |-> r.status]
      /\ UNCHANGED <<tasks, users, inflight, scn>>

UpdateProject(u, id, body) ==
  LET r == updateProject(u, id, body) IN
    /\ projects' = r.projects
    /\ resp' = [op |-> "updateProject", status |-> r.status]
    /\ UNCHANGED <<tasks, users, inflight, scn>>

DeleteProject(u, id) ==
  LET r == deleteProject(u, id) IN
    /\ projects' = r.projects
    /\ resp' = [op |-> "deleteProject", status |-> r.status]
    /\ UNCHANGED <<tasks, users, inflight, scn>>

AddProjectMember(u, id, userId) ==
  LET r == addProjectMember(u, id, userId) IN
    /\ projects' = r.projects
    /\ resp' = [op |-> "addProjectMember", status |-> r.status]
    /\ UNCHANGED <<tasks, users, inflight, scn>>

RemoveProjectMember(u, id, userId) ==
  LET r == removeProjectMember(u, id, userId) IN
    /\ projects' = r.projects
    /\ resp' = [op |-> "removeProjectMember", status |-> r.status]
    /\ UNCHANGED <<tasks, users, inflight, scn>>

GetProjectTasks(u, projectId) ==
  /\ resp' = [op |-> "getProjectTasks", status |-> getProjectTasks(u, projectId).status]
  /\ UNCHANGED <<projects, tasks, users, inflight, scn>>

GetMyTasks(u) ==
  /\ resp' = [op |-> "getMyTasks", status |-> getMyTasks(u).status]
  /\ UNCHANGED <<projects, tasks, users, inflight, scn>>

GetTaskById(u, id) ==
  /\ resp' = [op |-> "getTaskById", status |-> getTaskById(u, id).status]
  /\ UNCHANGED <<projects, tasks, users, inflight, scn>>

CreateTask(u, body) ==
  \E newId \in TaskIds \ DOMAIN tasks :
    LET r == createTask(u, newId, body) IN
      /\ tasks' = r.tasks
      /\ resp' = [op |-> "createTask", status |-> r.status]
      /\ UNCHANGED <<projects, users, inflight, scn>>

UpdateTask(u, id, body) ==
  LET r == updateTask(u, id, body) IN
    /\ tasks' = r.tasks
    /\ resp' = [op |-> "updateTask", status |-> r.status]
    /\ UNCHANGED <<projects, users, inflight, scn>>

DeleteTask(u, id) ==
  LET r == deleteTask(u, id) IN
    /\ tasks' = r.tasks
    /\ resp' = [op |-> "deleteTask", status |-> r.status]
    /\ UNCHANGED <<projects, users, inflight, scn>>

AddComment(u, id, body) ==
  LET r == addComment(u, id, body) IN
    /\ tasks' = r.tasks
    /\ resp' = [op |-> "addComment", status |-> r.status]
    /\ UNCHANGED <<projects, users, inflight, scn>>

Register(body) ==
  \E newId \in UserIds \ DOMAIN users :
    LET r == register(newId, body) IN
      /\ users' = r.users
      /\ resp' = [op |-> "register", status |-> r.status]
      /\ UNCHANGED <<projects, tasks, inflight, scn>>

(* ---------------------------- specifications --------------------------- *)

\* the project routes
NextProject ==
  \/ \E u \in Users : GetProjects(u)
  \/ \E u \in Users, id \in PathIds(ProjectIds) : GetProjectById(u, id)
  \/ \E u \in Creators, body \in CreateProjectBodies : CreateProject(u, body)
  \/ \E u \in Users, id \in PathIds(ProjectIds), body \in UpdateProjectBodies :
       UpdateProject(u, id, body)
  \/ \E u \in Users, id \in PathIds(ProjectIds) : DeleteProject(u, id)
  \/ \E u \in Users, id \in PathIds(ProjectIds), userId \in Users :
       /\ Exists(projects, id) => Len(projects[id].members) < MaxMembers
       /\ AddProjectMember(u, id, userId)
  \/ \E u \in Users, id \in PathIds(ProjectIds), userId \in Users :
       RemoveProjectMember(u, id, userId)

SpecProject == Init /\ [][NextProject]_vars

\* the task routes, over projects that are created, re-membered and deleted
NextTask ==
  \/ \E u \in Creators, body \in CreateProjectBodies : CreateProject(u, body)
  \/ \E u \in Users, id \in ProjectIds, body \in MembersBodies :
       UpdateProject(u, id, body)
  \/ \E u \in Users, id \in ProjectIds : DeleteProject(u, id)
  \/ \E u \in Users, id \in PathIds(ProjectIds) : GetProjectTasks(u, id)
  \/ \E u \in Users : GetMyTasks(u)
  \/ \E u \in Users, id \in PathIds(TaskIds) : GetTaskById(u, id)
  \/ \E u \in Users, body \in CreateTaskBodies : CreateTask(u, body)
  \/ \E u \in Users, id \in PathIds(TaskIds), body \in UpdateTaskBodies :
       UpdateTask(u, id, body)
  \/ \E u \in Users, id \in PathIds(TaskIds) : DeleteTask(u, id)
  \/ \E u \in Users, id \in PathIds(TaskIds), body \in CommentBodies :
       /\ Exists(tasks, id) => Len(tasks[id].comments) < MaxComments
       /\ AddComment(u, id, body)

SpecTask == Init /\ [][NextTask]_vars

\* the registration route
NextAuth == \E body \in RegisterBodies : Register(body)

SpecAuth == Init /\ [][NextAuth]_vars

(* ----------------- addProjectMember as interleaved requests ------------- *)

\* requests in flight at the same time
Requests == {"r1", "r2"}

\* await Project.findById(req.params.id), then the null test: the request
\* holds its own copy of the document from here on
AddMemberRead(r, u, id, userId) ==
  /\ r \notin DOMAIN inflight
  /\ IF Exists(projects, id)
       THEN /\ inflight' = Save(inflight, r,
                                [pc |-> "loaded", u |-> u, id |-> id, userId |-> userId,
                                 doc |-> projects[id]])
            /\ UNCHANGED resp
       ELSE /\ inflight' = Save(inflight, r,
                                [pc |-> "done", u |-> u, id |-> id, userId |-> userId,
                                 status |-> 404])
            /\ resp' = [op |-> "addProjectMember", status |-> 404]
  /\ UNCHANGED <<projects, tasks, users, scn>>

\* the request answers with status and is over
Answer(r, status) ==
  /\ inflight' = Save(inflight, r,
                      [pc |-> "done", u |-> inflight[r].u, id |-> inflight[r].id,
                       userId |-> inflight[r].userId, status |-> status])
  /\ resp' = [op |-> "addProjectMember", status |-> status]

\* the owner test and the includes test on the request's copy, then
\* members.push(userId) and await project.save(): the save sends the push
\* to the stored document
AddMemberSave(r) ==
  /\ r \in DOMAIN inflight
  /\ inflight[r].pc = "loaded"
  /\ LET q == inflight[r] IN
       IF q.doc.owner # q.u
         THEN Answer(r, 403) /\ UNCHANGED projects
       ELSE IF Includes(q.doc.members, q.userId)
         THEN Answer(r, 400) /\ UNCHANGED projects
       ELSE /\ projects' = [projects EXCEPT ![q.id].members = Append(@, q.userId)]
            /\ Answer(r, 200)
  /\ UNCHANGED <<tasks, users, scn>>

\* the same save when the schema checks the document version: a document
\* written since it was read makes save throw, and the handler answers 500
AddMemberSaveVersioned(r) ==
  /\ r \in DOMAIN inflight
  /\ inflight[r].pc = "loaded"
  /\ inflight[r].doc.owner = inflight[r].u
  /\ ~Includes(inflight[r].doc.members, inflight[r].userId)
  /\ projects[inflight[r].id] # inflight[r].doc
  /\ Answer(r, 500)
  /\ UNCHANGED <<projects, tasks, users, scn>>

ConcurrentBodies == {[name |-> "n1", description |-> "d1"]}

NextConcurrent ==
  \/ \E u \in Creators, body \in ConcurrentBodies : CreateProject(u, body)
  \/ \E r \in Requests, u \in Creators, id \in ProjectIds, userId \in {"u3"} :
       AddMemberRead(r, u, id, userId)
  \/ \E r \in Requests : AddMemberSave(r)
  \/ \E r \in Requests : AddMemberSaveVersioned(r)

SpecConcurrent == Init /\ [][NextConcurrent]_vars

(* ------------------------- routes and middleware ------------------------ *)

\* a request that carries no bearer token
NoToken == "no-token"

\* status a middleware answers with; Pass is next()
Pass == 0

\* protect: no valid token is answered 401, otherwise req.user is the user
\* the token names
protect(cred) == IF cred = NoToken THEN 401 ELSE Pass

\* admin: req.user.role must be admin, otherwise 403
admin(cred) ==
  IF cred \in DOMAIN users /\ users[cred].role = "admin" THEN Pass ELSE 403

\* the middleware of a route in order: the first one that answers ends the
\* request
RECURSIVE RunMiddleware(_, _)
RunMiddleware(middleware, cred) ==
  IF middleware = <<>> THEN Pass
  ELSE LET s == IF Head(middleware) = "protect" THEN protect(cred) ELSE admin(cred) IN
         IF s # Pass THEN s ELSE RunMiddleware(Tail(middleware), cred)

\* router.<verb>(path, ...middleware, handler) of the project router
ProjectRoutes ==
  { [handler |-> "getProjects",         middleware |-> <<"protect">>],
    [handler |-> "getProjectById",      middleware |-> <<"protect">>],
    [handler |-> "createProject",       middleware |-> <<"protect">>],
    [handler |-> "updateProject",       middleware |-> <<"protect">>],
    [handler |-> "deleteProject",       middleware |-> <<"protect">>],
    [handler |-> "addProjectMember",    middleware |-> <<"protect">>],
    [handler |-> "removeProjectMember", middleware |-> <<"protect">>],
    [handler |-> "debug",               middleware |-> <<>>] }

\* GET /debug/:id
debugProject(id) ==
  IF ~ObjectIdIsValid(id) THEN [status |-> 400, data |-> Undefined]
  ELSE IF ~Exists(projects, id) THEN [status |-> 404, data |-> Undefined]
  ELSE [status |-> 200,
        data |-> [owner |-> projects[id].owner,
                  membersCount |-> Len(projects[id].members),
                  members |-> projects[id].members]]

\* a project route asked without a token: the controllers read req.user._id,
\* which throws when no middleware has set req.user
anonymousProjectRequest(route, id) ==
  LET s == RunMiddleware(route.middleware, NoToken) IN
    IF s # Pass THEN [status |-> s, data |-> Undefined]
    ELSE IF route.handler = "debug" THEN debugProject(id)
    ELSE [status |-> 500, data |-> Undefined]

AnonymousProjectRequest(route, id) ==
  LET r == anonymousProjectRequest(route, id) IN
    /\ resp' = [op |-> route.handler, status |-> r.status, cred |-> NoToken, data |-> r.data]
    /\ UNCHANGED <<projects, tasks, users, inflight, scn>>

NextGateway ==
  \/ \E u \in Creators, body \in CreateProjectBodies : CreateProject(u, body)
  \/ \E u \in Creators, id \in ProjectIds : DeleteProject(u, id)
  \/ \E route \in ProjectRoutes, id \in PathIds(ProjectIds) : AnonymousProjectRequest(route, id)

SpecGateway == Init /\ [][NextGateway]_vars

(* ---------------------------- user management --------------------------- *)

\* User.find().select('-password')
getUsers == [status |-> 200, users |-> users, data |-> users]

getUserById(id) ==
  IF ~ObjectIdIsValid(id) THEN [status |-> 500, users |-> users, data |-> Undefined]
  ELSE IF ~Exists(users, id) THEN [status |-> 404, users |-> users, data |-> Undefined]
  ELSE [status |-> 200, users |-> users, data |-> users[id]]

\* user.x = req.body.x || user.x
MergeUser(user, body) ==
  [username |-> Or(Field(body, "username"), user.username),
   email |-> Or(Field(body, "email"), user.email),
   role |-> Or(Field(body, "role"), user.role)]

updateUser(id, body) ==
  IF ~ObjectIdIsValid(id) THEN [status |-> 500, users |-> users, data |-> Undefined]
  ELSE IF ~Exists(users, id) THEN [status |-> 404, users |-> users, data |-> Undefined]
  ELSE [status |-> 200, users |-> Save(users, id, MergeUser(users[id], body)),
        data |-> MergeUser(users[id], body)]

deleteUser(id) ==
  IF ~ObjectIdIsValid(id) THEN [status |-> 500, users |-> users, data |-> Undefined]
  ELSE IF ~Exists(users, id) THEN [status |-> 404, users |-> users, data |-> Undefined]
  ELSE [status |-> 200, users |-> DeleteOne(users, id), data |-> Undefined]

UserRoutes_deleteWithoutAdmin ==
  { [handler |-> "getUsers",    middleware |-> <<"protect", "admin">>],
    [handler |-> "getUserById", middleware |-> <<"protect", "admin">>],
    [handler |-> "updateUser",  middleware |-> <<"protect", "admin">>],
    [handler |-> "deleteUser",  middleware |-> <<"protect">>] }

\* router.<verb>(path, protect, admin, handler) of the user router
UserRoutes ==
  { [handler |-> "getUsers",    middleware |-> <<"protect", "admin">>],
    [handler |-> "getUserById", middleware |-> <<"protect", "admin">>],
    [handler |-> "updateUser",  middleware |-> <<"protect", "admin">>],
    [handler |-> "deleteUser",  middleware |-> <<"protect", "admin">>] }

\* a user route asked with credential cred: the middleware, then the handler
userRequest(cred, route, id, body) ==
  LET s == RunMiddleware(route.middleware, cred) IN
    IF s # Pass THEN [status |-> s, users |-> users, data |-> Undefined]
    ELSE IF route.handler = "getUsers" THEN getUsers
    ELSE IF route.handler = "getUserById" THEN getUserById(id)
    ELSE IF route.handler = "updateUser" THEN updateUser(id, body)
    ELSE deleteUser(id)

\* the credentials a request can carry: the token of a stored user, or none
Credentials == DOMAIN users \cup {NoToken}

UpdateUserBodies == {EmptyBody, [role |-> "admin"], [role |-> "user", username |-> ""]}

UserRequest(cred, route, id, body) ==
  LET r == userRequest(cred, route, id, body) IN
    /\ users' = r.users
    /\ resp' = [op |-> route.handler, status |-> r.status, cred |-> cred]
    /\ UNCHANGED <<projects, tasks, inflight, scn>>

AdminRegisterBodies ==
  {[username |-> "ana", email |-> "a@x"], [username |-> "bob", email |-> "b@x", role |-> "admin"],
   [username |-> "cat", email |-> "c@x"]}

NextAdmin ==
  \/ \E body \in AdminRegisterBodies : Register(body)
  \/ \E cred \in Credentials, route \in UserRoutes, id \in PathIds(UserIds),
        body \in UpdateUserBodies : UserRequest(cred, route, id, body)

SpecAdmin == Init /\ [][NextAdmin]_vars

(* ------------------------- a collaboration session ---------------------- *)
\* Two clients A and B drive the handlers in a fixed order; scn holds how far
\* they are, the ids the store handed out and the answers so far.

ScenarioTaskIds == {"t1", "t2"}

ScenarioBodiesA == {[username |-> "ana", email |-> "a@x"],
                    [username |-> "ana", email |-> "a@x", role |-> "admin"]}

ScenarioBodiesB == {[username |-> "bob", email |-> "b@x"]}

ScenarioProjectBodies == {[name |-> "n1", description |-> "d1"],
                          [name |-> "n1", description |-> "d1", members |-> <<>>]}

\* the answers so far, with this one added
Log(op, status) ==
  IF "log" \in DOMAIN scn THEN Append(scn.log, [op |-> op, status |-> status])
  ELSE <<[op |-> op, status |-> status]>>

\* POST /auth/register by A
ScenarioRegisterA ==
  /\ scn.step = 0
  /\ \E newId \in UserIds \ DOMAIN users, body \in ScenarioBodiesA :
       LET r == register(newId, body) IN
         /\ users' = r.users
         /\ resp' = [op |-> "register", status |-> r.status]
         /\ scn' = [step |-> 1, log |-> Log("registerA", r.status), a |-> newId] @@ scn
  /\ UNCHANGED <<projects, tasks, inflight>>

\* POST /projects by A
ScenarioCreateProject ==
  /\ scn.step = 1
  /\ \E newId \in ProjectIds \ DOMAIN projects, body \in ScenarioProjectBodies :
       LET r == createProject(scn.a, newId, body) IN
         /\ projects' = r.projects
         /\ resp' = [op |-> "createProject", status |-> r.status]
         /\ scn' = [step |-> 2, log |-> Log("createProjectA", r.status), x |-> newId] @@ scn
  /\ UNCHANGED <<tasks, users, inflight>>

\* POST /auth/register by B
ScenarioRegisterB ==
  /\ scn.step = 2
  /\ \E newId \in UserIds \ DOMAIN users, body \in ScenarioBodiesB :
       LET r == register(newId, body) IN
         /\ users' = r.users
         /\ resp' = [op |-> "register", status |-> r.status]
         /\ scn' = [step |-> 3, log |-> Log("registerB", r.status), b |-> newId] @@ scn
  /\ UNCHANGED <<projects, tasks, inflight>>

\* POST /projects/X/members {userId: B} by A
ScenarioAddMember ==
  /\ scn.step = 3
  /\ LET r == addProjectMember(scn.a, scn.x, scn.b) IN
       /\ projects' = r.projects
       /\ resp' = [op |-> "addProjectMember", status |-> r.status]
       /\ scn' = [step |-> 4, log |-> Log("addMemberA", r.status)] @@ scn
  /\ UNCHANGED <<tasks, users, inflight>>

\* POST /tasks {project: X} by B
ScenarioCreateTaskB ==
  /\ scn.step = 4
  /\ \E newId \in ScenarioTaskIds \ DOMAIN tasks :
       LET r == createTask(scn.b, newId, [title |-> "a", project |-> scn.x]) IN
         /\ tasks' = r.tasks
         /\ resp' = [op |-> "createTask", status |-> r.status]
         /\ scn' = [step |-> 5, log |-> Log("createTaskB", r.status), t1 |-> newId] @@ scn
  /\ UNCHANGED <<projects, users, inflight>>

\* PUT /tasks/T1 {status: completed} by A
ScenarioUpdateTask ==
  /\ scn.step = 5
  /\ LET r == updateTask(scn.a, scn.t1, [status |-> "completed"]) IN
       /\ tasks' = r.tasks
       /\ resp' = [op |-> "updateTask", status |-> r.status]
       /\ scn' = [step |-> 6, log |-> Log("updateTaskA", r.status)] @@ scn
  /\ UNCHANGED <<projects, users, inflight>>

\* POST /tasks/T1/comments by B
ScenarioAddComment ==
  /\ scn.step = 6
  /\ \E body \in CommentBodies :
       LET r == addComment(scn.b, scn.t1, body) IN
         /\ tasks' = r.tasks
         /\ resp' = [op |-> "addComment", status |-> r.status]
         /\ scn' = [step |-> 7, log |-> Log("addCommentB", r.status)] @@ scn
  /\ UNCHANGED <<projects, users, inflight>>

\* DELETE /tasks/T1 by A
ScenarioDeleteTaskA ==
  /\ scn.step = 7
  /\ LET r == deleteTask(scn.a, scn.t1) IN
       /\ tasks' = r.tasks
       /\ resp' = [op |-> "deleteTask", status |-> r.status]
       /\ scn' = [step |-> 8, log |-> Log("deleteTaskA", r.status)] @@ scn
  /\ UNCHANGED <<projects, users, inflight>>

\* POST /tasks {project: X} by A, at any time once X exists: the second task
\* (the store never hands out an ObjectId twice)
ScenarioCreateTaskA ==
  /\ scn.step \in 2..8
  /\ "t2" \notin DOMAIN scn
  /\ \E newId \in ScenarioTaskIds \ (DOMAIN tasks \cup {Field(scn, "t1")}) :
       LET r == createTask(scn.a, newId, [title |-> "b", project |-> scn.x]) IN
         /\ tasks' = r.tasks
         /\ resp' = [op |-> "createTask", status |-> r.status]
         /\ scn' = [log |-> Log("createTaskA", r.status), t2 |-> newId] @@ scn
  /\ UNCHANGED <<projects, users, inflight>>

\* DELETE /tasks/T2 by B
ScenarioDeleteTaskB ==
  /\ scn.step = 8
  /\ "t2" \in DOMAIN scn
  /\ LET r == deleteTask(scn.b, scn.t2) IN
       /\ tasks' = r.tasks
       /\ resp' = [op |-> "deleteTask", status |-> r.status]
       /\ scn' = [step |-> 9, log |-> Log("deleteTaskB", r.status)] @@ scn
  /\ UNCHANGED <<projects, users, inflight>>

NextScenario ==
  \/ ScenarioRegisterA
  \/ ScenarioCreateProject
  \/ ScenarioRegisterB
  \/ ScenarioAddMember
  \/ ScenarioCreateTaskB
  \/ ScenarioUpdateTask
  \/ ScenarioAddComment
  \/ ScenarioDeleteTaskA
  \/ ScenarioCreateTaskA
  \/ ScenarioDeleteTaskB

SpecScenario == Init /\ [][NextScenario]_vars

(* ------------------------------ patch bodies ---------------------------- *)

\* what a body can hold for one key: nothing, the empty string, a value
FieldPatches(key, value) ==
  {EmptyBody, [k \in {key} |-> ""], [k \in {key} |-> value]}

\* what a body can hold for members: nothing or a list
MembersPatches == {EmptyBody} \cup {[k \in {"members"} |-> m] : m \in MemberInputs}

\* every body of PUT /projects/:id over the six fields updateProject reads
ProjectPatchBodies ==
  {n @@ d @@ s @@ sd @@ ed @@ m :
     n \in FieldPatches("name", "n2"), d \in FieldPatches("description", "d2"),
     s \in FieldPatches("status", "completed"), sd \in FieldPatches("startDate", "s2"),
     ed \in FieldPatches("endDate", "e2"), m \in MembersPatches}

\* one project, created and then patched
NextProjectPatch ==
  \/ /\ DOMAIN projects = {}
     /\ \E body \in CreateProjectBodies : CreateProject("u1", body)
  \/ \E u \in {"u1", "u2"}, id \in ProjectIds, body \in ProjectPatchBodies :
       UpdateProject(u, id, body)

SpecProjectPatch == Init /\ [][NextProjectPatch]_vars

\* keys updateTask does not read
ForeignKeyPatches == {EmptyBody, [project |-> "p2", createdBy |-> "u3"]}

\* every body of PUT /tasks/:id over the six fields updateTask reads, with or
\* without the keys it does not read
TaskPatchBodies ==
  {t @@ d @@ s @@ p @@ dd @@ a @@ x :
     t \in FieldPatches("title", "t2"), d \in FieldPatches("description", "d2"),
     s \in FieldPatches("status", "completed"), p \in FieldPatches("priority", "high"),
     dd \in FieldPatches("dueDate", "e2"), a \in FieldPatches("assignedTo", "u2"),
     x \in ForeignKeyPatches}

CommentPatchBodies == CommentBodies \cup {[text |-> "c", project |-> "p2", createdBy |-> "u3"]}

\* the bodies the clients of the patch session send
TaskPatchSteps ==
  {EmptyBody,
   [title |-> "t2", status |-> ""],
   [status |-> "completed", assignedTo |-> "u2"],
   [priority |-> "high", dueDate |-> "e2", description |-> "d2", project |-> "p2"]}

\* one project with one task, patched and commented on
NextTaskPatch ==
  \/ /\ DOMAIN projects = {}
     /\ \E body \in ConcurrentBodies \cup {[members |-> <<"u2">>]} : CreateProject("u1", body)
  \/ \E u \in {"u1", "u2"}, body \in CreateTaskBodies : CreateTask(u, body)
  \/ \E u \in {"u1", "u2"}, id \in TaskIds, body \in TaskPatchSteps : UpdateTask(u, id, body)
  \/ \E u \in {"u1", "u2"}, id \in TaskIds, body \in CommentPatchBodies :
       /\ id \in DOMAIN tasks => Len(tasks[id].comments) < MaxComments
       /\ AddComment(u, id, body)

SpecTaskPatch == Init /\ [][NextTaskPatch]_vars

(* ------------------------------ properties ----------------------------- *)

\* the access rules as the specification states them
canAccess(project, u) == project.owner = u \/ u \in Range(project.members)

canManage(project, u) == project.owner = u

\* tasks whose parent project is stored
LiveTasks == {t \in DOMAIN tasks : tasks[t].project \in DOMAIN projects}

\* C1: for every stored project P and every requester U, getProjectById(U, P)
\* answers 200 exactly when U is P's owner or one of P's members, and 403
\* otherwise.
C1_GetIffAccess ==
  \A id \in DOMAIN projects, u \in Users :
    IF canAccess(projects[id], u)
      THEN getProjectById(u, id).status = 200
      ELSE getProjectById(u, id).status = 403

\* a get was refused while some project has a member other than its owner
C1_Witness ==
  /\ resp = [op |-> "getProjectById", status |-> 403]
  /\ \E id \in DOMAIN projects :
       \E m \in Range(projects[id].members) : m # projects[id].owner

\* C2: on a stored project P, update, delete, addMember and removeMember
\* succeed only for P's owner; for every other requester (member or not) they
\* answer 403 and leave the whole project store as it was.
C2_OwnerOnlyManage ==
  \A id \in DOMAIN projects, u \in Users :
    LET results ==
          {updateProject(u, id, b) : b \in UpdateProjectBodies}
            \cup {deleteProject(u, id)}
            \cup {addProjectMember(u, id, x) : x \in Users}
            \cup {removeProjectMember(u, id, x) : x \in Users}
    IN \A r \in results :
         /\ r.status = 200 => canManage(projects[id], u)
         /\ ~canManage(projects[id], u) => r.status = 403 /\ r.projects = projects

\* a member who is not the owner was refused an update
C2_Witness ==
  /\ resp = [op |-> "updateProject", status |-> 403]
  /\ \E id \in DOMAIN projects :
       \E m \in Range(projects[id].members) : m # projects[id].owner

\* C3: for a stored project P and a task T under it, getProjectTasks(P),
\* getTaskById(T), createTask in P, updateTask(T) and addComment(T) succeed
\* exactly when the requester is P's owner or one of P's members; otherwise
\* they answer 403 and the task store is as it was.
C3_TaskAccess ==
  /\ \A pid \in DOMAIN projects, u \in Users :
       LET ok == canAccess(projects[pid], u)
           results ==
             {getProjectTasks(u, pid)}
               \cup {createTask(u, newId, [title |-> "a", project |-> pid]) :
                       newId \in TaskIds \ DOMAIN tasks}
       IN \A r \in results :
            /\ ok <=> r.status \in {200, 201}
            /\ ~ok => r.status = 403 /\ r.tasks = tasks
  /\ \A t \in LiveTasks, u \in Users :
       LET ok == canAccess(projects[tasks[t].project], u)
           results ==
             {getTaskById(u, t)}
               \cup {updateTask(u, t, b) : b \in UpdateTaskBodies}
               \cup {addComment(u, t, b) : b \in CommentBodies}
       IN \A r \in results :
            /\ ok <=> r.status = 200
            /\ ~ok => r.status = 403 /\ r.tasks = tasks

\* a comment was refused on a task whose project has a member besides the owner
C3_Witness ==
  /\ resp = [op |-> "addComment", status |-> 403]
  /\ \E t \in LiveTasks :
       \E m \in Range(projects[tasks[t].project].members) :
          m # projects[tasks[t].project].owner

\* C4: deleteTask on a stored task T (parent project stored) succeeds exactly
\* for the owner of T's project, whoever created T, and removes T; any other
\* requester, T's creator included, gets 403 and T is still stored.
C4_DeleteOwnerOnly ==
  \A t \in LiveTasks, u \in Users :
    LET r == deleteTask(u, t) IN
      IF canManage(projects[tasks[t].project], u)
        THEN r.status = 200 /\ t \notin DOMAIN r.tasks
        ELSE r.status = 403 /\ r.tasks = tasks

\* a delete was refused while a task created by a non-owner member is stored
C4_Witness ==
  /\ resp = [op |-> "deleteTask", status |-> 403]
  /\ \E t \in LiveTasks :
       /\ tasks[t].createdBy # projects[tasks[t].project].owner
       /\ tasks[t].createdBy \in Range(projects[tasks[t].project].members)

\* C5: addProjectMember by the owner answers 400 and changes nothing when the
\* user is already in the member list; otherwise it answers 200 and the list
\* is the old one with the user appended.
C5_AddMember ==
  \A id \in DOMAIN projects, x \in Users :
    LET old == projects[id].members
        r == addProjectMember(projects[id].owner, id, x)
    IN IF x \in Range(old)
         THEN r.status = 400 /\ r.projects = projects
         ELSE /\ r.status = 200
              /\ r.projects[id].members = Append(old, x)
              /\ r.projects = [projects EXCEPT ![id].members = Append(old, x)]

\* an add was refused as a duplicate
C5_Witness ==
  /\ resp = [op |-> "addProjectMember", status |-> 400]
  /\ \E id \in DOMAIN projects : projects[id].members # <<>>

\* C6: removeProjectMember by the owner always answers 200; the member list
\* afterwards is the old one without the user, every other member kept in
\* place; removing a user who is no member changes nothing; and a second
\* removal of the same user leaves the store as the first one left it.
C6_RemoveMember ==
  \A id \in DOMAIN projects, x \in Users :
    LET old == projects[id].members
        owner == projects[id].owner
        r == removeProjectMember(owner, id, x)
        again == removeProjectMemberOn(r.projects, owner, id, x)
    IN /\ r.status = 200
       /\ r.projects[id].members = SelectSeq(old, LAMBDA m : m # x)
       /\ x \notin Range(r.projects[id].members)
       /\ r.projects = [projects EXCEPT ![id].members = r.projects[id].members]
       /\ x \notin Range(old) => r.projects = projects
       /\ again = r

\* a removal succeeded and left a project with a member, while another
\* project lists the same user twice
C6_Witness ==
  /\ resp = [op |-> "removeProjectMember", status |-> 200]
  /\ \E id \in DOMAIN projects : Len(projects[id].members) = 1
  /\ \E id \in DOMAIN projects :
       \E i, j \in 1..Len(projects[id].members) :
          i # j /\ projects[id].members[i] = projects[id].members[j]

\* C7: getProjects(U) returns exactly the stored projects that U owns or is a
\* member of: none missing, none extra.
C7_ListAccessible ==
  \A u \in Users :
    /\ getProjects(u).status = 200
    /\ getProjects(u).data = {id \in DOMAIN projects : canAccess(projects[id], u)}

\* after a listing, some requester sees one project as member only and not the other
C7_Witness ==
  /\ resp = [op |-> "getProjects", status |-> 200]
  /\ \E u \in Users, p \in DOMAIN projects, q \in DOMAIN projects :
       /\ getProjects(u).data = {p}
       /\ projects[p].owner # u
       /\ q # p

\* C8: register answers 400 and stores nothing when a stored user has the
\* same email or the same username; otherwise it answers 201 and stores the
\* user; hence no two stored users share an email or a username.
C8_RegisterUnique ==
  /\ \A body \in RegisterBodies, newId \in UserIds \ DOMAIN users :
       LET r == register(newId, body)
           dup == \E id \in DOMAIN users :
                    \/ users[id].email = body.email
                    \/ users[id].username = body.username
       IN IF dup
            THEN r.status = 400 /\ r.users = users
            ELSE /\ r.status = 201
                 /\ DOMAIN r.users = DOMAIN users \cup {newId}
                 /\ r.users[newId].email = body.email
                 /\ r.users[newId].username = body.username
                 /\ \A id \in DOMAIN users : r.users[id] = users[id]
  /\ \A a \in DOMAIN users, b \in DOMAIN users :
       a # b => users[a].email # users[b].email /\ users[a].username # users[b].username

\* a registration was refused with two users stored
C8_Witness ==
  /\ resp = [op |-> "register", status |-> 400]
  /\ Cardinality(DOMAIN users) = 2

\* C9: existence is checked before authorization: a well-formed id of a
\* project or task that is not stored gets 404 from every handler for every
\* requester, and 403 is answered only for a stored resource the requester
\* lacks the required access to.
ProjectResults(u, id) ==
  {getProjectById(u, id), deleteProject(u, id)}
    \cup {updateProject(u, id, b) : b \in UpdateProjectBodies}
    \cup {addProjectMember(u, id, x) : x \in Users}
    \cup {removeProjectMember(u, id, x) : x \in Users}

TaskResults(u, id) ==
  {getTaskById(u, id), deleteTask(u, id)}
    \cup {updateTask(u, id, b) : b \in UpdateTaskBodies}
    \cup {addComment(u, id, b) : b \in CommentBodies}

ProjectScopedResults(u, pid) ==
  {getProjectTasks(u, pid)}
    \cup {createTask(u, newId, [title |-> "a", project |-> pid]) :
            newId \in TaskIds \ DOMAIN tasks}

C9_ExistenceFirst ==
  /\ \A u \in Users, id \in ProjectIds :
       /\ \A r \in ProjectResults(u, id) \cup ProjectScopedResults(u, id) :
            /\ id \notin DOMAIN projects => r.status = 404
            /\ r.status = 403 => id \in DOMAIN projects
       /\ getProjectById(u, id).status = 403 => ~canAccess(projects[id], u)
       /\ \A r \in ProjectScopedResults(u, id) :
            r.status = 403 => ~canAccess(projects[id], u)
       /\ \A r \in ProjectResults(u, id) \ {getProjectById(u, id)} :
            r.status = 403 => ~canManage(projects[id], u)
  /\ \A u \in Users, id \in TaskIds :
       /\ \A r \in TaskResults(u, id) :
            /\ id \notin DOMAIN tasks => r.status = 404
            /\ r.status = 403 => id \in LiveTasks
       /\ \A r \in TaskResults(u, id) \ {deleteTask(u, id)} :
            r.status = 403 => ~canAccess(projects[tasks[id].project], u)
       /\ deleteTask(u, id).status = 403 => ~canManage(projects[tasks[id].project], u)
  /\ \A u \in Users :
       \A r \in ProjectResults(u, MalformedId) \cup TaskResults(u, MalformedId)
                 \cup ProjectScopedResults(u, MalformedId) :
          r.status # 403

\* an update of a task that is not stored got 404 while a project is stored
C9_Witness ==
  /\ resp = [op |-> "updateTask", status |-> 404]
  /\ DOMAIN projects # {}
  /\ DOMAIN tasks = {}

\* C10 as stated: getProjectById answers 404 for a malformed id as it does
\* for a well-formed id that is not stored.
C10_MalformedIsNotFound ==
  \A u \in Users :
    /\ getProjectById(u, MalformedId).status = 404
    /\ \A id \in ProjectIds \ DOMAIN projects : getProjectById(u, id).status = 404

\* C10 amended: getProjectById answers 400 for a malformed id and 404 for a
\* well-formed id that is not stored, whoever asks.
C10_MalformedIsBadRequest ==
  \A u \in Users :
    /\ getProjectById(u, MalformedId).status = 400
    /\ \A id \in ProjectIds \ DOMAIN projects : getProjectById(u, id).status = 404

\* a get with a malformed id was answered 400
C10_Witness ==
  /\ resp = [op |-> "getProjectById", status |-> 400]
  /\ DOMAIN projects # {}

\* C11: as long as a task is stored its comment sequence only grows at the
\* end: a successful addComment(T, U, text) appends the one entry
\* [text, author U] behind the comments already there, and no result of
\* createTask, updateTask or a refused request changes the comments of a
\* stored task, whatever the body carries.
CommentTexts == {"c", "d"}

CommentKeyBodies == {[comments |-> <<>>], [comments |-> <<>>, status |-> "completed"]}

C11_CommentsAppendOnly ==
  \A t \in DOMAIN tasks, u \in Users :
    /\ \A text \in CommentTexts :
         LET r == addComment(u, t, [text |-> text]) IN
           IF r.status = 200
             THEN r.tasks = [tasks EXCEPT ![t].comments =
                               Append(@, [text |-> text, author |-> u])]
             ELSE r.tasks = tasks
    /\ \A b \in UpdateTaskBodies \cup CommentKeyBodies :
         LET r == updateTask(u, t, b) IN
           /\ t \in DOMAIN r.tasks
           /\ r.tasks[t].comments = tasks[t].comments
    /\ \A b \in CreateTaskBodies, newId \in TaskIds \ DOMAIN tasks :
         createTask(u, newId, b).tasks[t] = tasks[t]

\* a comment was added and the task holds it
C11_Witness ==
  /\ resp = [op |-> "addComment", status |-> 200]
  /\ \E t \in DOMAIN tasks : Len(tasks[t].comments) >= 1

\* C12: two addProjectMember requests by the owner for the same project and
\* the same user that have both been answered: one got 200, the other 400,
\* and the stored member list holds that user once.
Count(s, x) == Cardinality({i \in 1..Len(s) : s[i] = x})

C12_AddMemberAtomic ==
  \A r1 \in DOMAIN inflight, r2 \in DOMAIN inflight :
    ( /\ r1 # r2
      /\ inflight[r1].pc = "done" /\ inflight[r2].pc = "done"
      /\ inflight[r1].id = inflight[r2].id
      /\ inflight[r1].userId = inflight[r2].userId
      /\ inflight[r1].id \in DOMAIN projects
      /\ inflight[r1].u = projects[inflight[r1].id].owner
      /\ inflight[r2].u = projects[inflight[r2].id].owner
      /\ inflight[r1].status # 404 /\ inflight[r2].status # 404 )
    => /\ {inflight[r1].status, inflight[r2].status} = {200, 400}
       /\ Count(projects[inflight[r1].id].members, inflight[r1].userId) = 1

\* C13: a request to a project route that carries no valid bearer token is
\* answered 401 and learns nothing about any project.
C13_ProjectRoutesRequireToken ==
  ("cred" \in DOMAIN resp /\ resp.cred = NoToken /\ resp.op \in {r.handler : r \in ProjectRoutes})
    => (resp.status = 401 /\ resp.data = Undefined)

\* C14: on every user-management route a request without a token is answered
\* 401 and one by a stored user whose role is not admin is answered 403; in
\* both cases no user is returned and the user store is unchanged.  Only an
\* admin gets past the middleware.
C14_UserRoutesAdminOnly ==
  \A cred \in Credentials, route \in UserRoutes, id \in PathIds(UserIds),
     body \in UpdateUserBodies :
    LET r == userRequest(cred, route, id, body) IN
      /\ cred = NoToken => (r.status = 401 /\ r.users = users /\ r.data = Undefined)
      /\ (cred # NoToken /\ users[cred].role # "admin")
           => (r.status = 403 /\ r.users = users /\ r.data = Undefined)
      /\ r.status \in {200, 404, 500} => (cred # NoToken /\ users[cred].role = "admin")

C14_Witness ==
  /\ "cred" \in DOMAIN resp
  /\ resp.op = "deleteUser"
  /\ resp.status = 403
  /\ resp.cred \in DOMAIN users
  /\ users[resp.cred].role = "user"
  /\ \E id \in DOMAIN users : users[id].role = "admin"

\* C15: in the session of A and B every step up to A's delete of the first
\* task succeeds and has its effect (A owns X, B is a member, the task is
\* completed, B's comment is stored, the task is gone); B's delete of the
\* task A created is answered 403 and that task is still stored.
C15_ScenarioSucceeds ==
  /\ scn.step >= 1 =>
       \A i \in 1..Len(scn.log) :
         IF scn.log[i].op = "deleteTaskB" THEN scn.log[i].status = 403
         ELSE scn.log[i].status \in {200, 201}
  /\ scn.step >= 2 => (scn.x \in DOMAIN projects /\ projects[scn.x].owner = scn.a)
  /\ scn.step >= 4 => Includes(projects[scn.x].members, scn.b)
  /\ scn.step \in 5..7 =>
       (scn.t1 \in DOMAIN tasks /\ tasks[scn.t1].createdBy = scn.b
          /\ tasks[scn.t1].project = scn.x)
  /\ scn.step \in 6..7 => tasks[scn.t1].status = "completed"
  /\ scn.step = 7 =>
       \E i \in 1..Len(tasks[scn.t1].comments) : tasks[scn.t1].comments[i].author = scn.b
  /\ scn.step >= 8 => scn.t1 \notin DOMAIN tasks
  /\ "t2" \in DOMAIN scn =>
       (scn.t2 \in DOMAIN tasks /\ tasks[scn.t2].createdBy = scn.a
          /\ tasks[scn.t2].project = scn.x)

C15_Witness ==
  /\ scn.step = 9
  /\ resp = [op |-> "deleteTask", status |-> 403]
  /\ scn.t2 \in DOMAIN tasks

\* C16: updateProject by the owner answers 200 and stores, for each of name,
\* description, status, startDate and endDate, the body's value when the key
\* is present and not empty and the stored value otherwise; members becomes
\* the body's list when the key is present (an empty list included) and stays
\* otherwise; the owner and every other project stay as they are.
ProjectPatchFields == {"name", "description", "status", "startDate", "endDate"}

C16_UpdateIsMergePatch ==
  \A id \in DOMAIN projects, body \in ProjectPatchBodies :
    LET r == updateProject(projects[id].owner, id, body) IN
      /\ r.status = 200
      /\ DOMAIN r.projects = DOMAIN projects
      /\ \A f \in ProjectPatchFields :
           r.projects[id][f] =
             IF f \in DOMAIN body /\ body[f] # "" THEN body[f] ELSE projects[id][f]
      /\ r.projects[id].members =
           IF "members" \in DOMAIN body THEN body.members ELSE projects[id].members
      /\ r.projects[id].owner = projects[id].owner
      /\ \A other \in DOMAIN projects \ {id} : r.projects[other] = projects[other]

C16_Witness ==
  /\ resp = [op |-> "updateProject", status |-> 200]
  /\ \E id \in DOMAIN projects :
       /\ projects[id].name = "n2"
       /\ projects[id].description = "d1"
       /\ projects[id].endDate = "e2"
       /\ projects[id].members = <<>>

\* C17: createProject stores the requester as owner whatever the body says;
\* updateProject, addProjectMember and removeProjectMember, by any requester
\* and with any body (an owner key included), leave every stored project's
\* owner as it is; and the owner is answered 200 by getProjectById whether or
\* not the member list names them.
OwnerBodies ==
  {[owner |-> "u3"], [owner |-> "u3", name |-> "n2", members |-> <<"u3">>]}

C17_OwnerIsFixed ==
  /\ \A u \in Users, newId \in ProjectIds \ DOMAIN projects,
        body \in CreateProjectBodies \cup OwnerBodies :
       createProject(u, newId, body).projects[newId].owner = u
  /\ \A id \in DOMAIN projects :
       /\ getProjectById(projects[id].owner, id).status = 200
       /\ \A u \in Users :
            /\ \A body \in UpdateProjectBodies \cup OwnerBodies :
                 LET r == updateProject(u, id, body) IN
                   id \in DOMAIN r.projects /\ r.projects[id].owner = projects[id].owner
            /\ \A userId \in UserIds :
                 /\ LET r == addProjectMember(u, id, userId) IN
                      id \in DOMAIN r.projects /\ r.projects[id].owner = projects[id].owner
                 /\ LET r == removeProjectMember(u, id, userId) IN
                      id \in DOMAIN r.projects /\ r.projects[id].owner = projects[id].owner

C17_Witness ==
  /\ resp = [op |-> "removeProjectMember", status |-> 200]
  /\ \E id \in DOMAIN projects :
       /\ projects[id].members # <<>>
       /\ ~Includes(projects[id].members, projects[id].owner)
       /\ getProjectById(projects[id].owner, id).status = 200

\* C18: updateTask and addComment, by any requester and with any body (project
\* and createdBy keys included), leave the task's project, createdBy and, for
\* updateTask, its comments as they are; a 200 updateTask stores for each of
\* title, description, status, priority, dueDate and assignedTo the body's
\* value when the key is present and not empty and the stored value
\* otherwise; any other answer stores nothing.
TaskPatchFields == {"title", "description", "status", "priority", "dueDate", "assignedTo"}

C18_TaskPatchKeepsReferences ==
  \A t \in DOMAIN tasks, u \in Users :
    /\ \A body \in TaskPatchBodies :
         LET r == updateTask(u, t, body) IN
           /\ DOMAIN r.tasks = DOMAIN tasks
           /\ r.tasks[t].project = tasks[t].project
           /\ r.tasks[t].createdBy = tasks[t].createdBy
           /\ r.tasks[t].comments = tasks[t].comments
           /\ IF r.status = 200
                THEN \A f \in TaskPatchFields :
                       r.tasks[t][f] =
                         IF f \in DOMAIN body /\ body[f] # "" THEN body[f] ELSE tasks[t][f]
                ELSE r.tasks = tasks
    /\ \A body \in CommentPatchBodies :
         LET r == addComment(u, t, body) IN
           /\ DOMAIN r.tasks = DOMAIN tasks
           /\ r.tasks[t].project = tasks[t].project
           /\ r.tasks[t].createdBy = tasks[t].createdBy
           /\ \A f \in TaskPatchFields : r.tasks[t][f] = tasks[t][f]

C18_Witness ==
  /\ resp = [op |-> "updateTask", status |-> 200]
  /\ \E t \in DOMAIN tasks :
       /\ tasks[t].status = "completed"
       /\ tasks[t].title = "a"
       /\ tasks[t].assignedTo = "u2"
       /\ tasks[t].project \in DOMAIN projects
       /\ tasks[t].createdBy \in {"u1", "u2"}

\* C19: a createTask answered 201 stores exactly one new task, whose project
\* is the stored project the body names, whose createdBy is the requester
\* (whatever createdBy, status or comments the body carries), whose status is
\* pending and whose comments are empty, and changes no other task; when the
\* body names a well-formed id of no stored project the answer is 404; every
\* answer other than 201 stores nothing.
CreateTaskKeyBodies ==
  {[title |-> "a", project |-> p, createdBy |-> "u3", status |-> "completed",
    comments |-> <<[text |-> "c", author |-> "u3"]>>] : p \in PathIds(ProjectIds)}
    \cup {[title |-> "a"]}

C19_CreateTaskStoresOne ==
  \A u \in Users, newId \in ScenarioTaskIds \ DOMAIN tasks,
     body \in CreateTaskBodies \cup CreateTaskKeyBodies :
    LET r == createTask(u, newId, body)
        p == Field(body, "project") IN
      /\ r.status = 201 =>
           /\ DOMAIN r.tasks = DOMAIN tasks \cup {newId}
           /\ \A t \in DOMAIN tasks : r.tasks[t] = tasks[t]
           /\ p \in DOMAIN projects
           /\ r.tasks[newId].project = p
           /\ r.tasks[newId].createdBy = u
           /\ r.tasks[newId].status = "pending"
           /\ r.tasks[newId].comments = <<>>
      /\ (p # MalformedId /\ p \notin DOMAIN projects) => r.status = 404
      /\ (p \in DOMAIN projects /\ ~NotAuthorized(projects[p], u)) => r.status = 201
      /\ r.status # 201 => r.tasks = tasks

C19_Witness ==
  /\ resp = [op |-> "createTask", status |-> 201]
  /\ \E t \in DOMAIN tasks :
       /\ tasks[t].project \in DOMAIN projects
       /\ tasks[t].createdBy # projects[tasks[t].project].owner
       /\ tasks[t].status = "pending"
       /\ tasks[t].comments = <<>>

\* C20: for every stored task, whether or not its project is still stored,
\* getTaskById, updateTask, deleteTask and addComment by any requester are
\* answered with success, 403 or 404, never 500.
C20_TaskOpsNeverFail ==
  \A t \in DOMAIN tasks, u \in Users :
    /\ getTaskById(u, t).status \in {200, 403, 404}
    /\ \A body \in UpdateTaskBodies : updateTask(u, t, body).status \in {200, 403, 404}
    /\ deleteTask(u, t).status \in {200, 403, 404}
    /\ \A body \in CommentBodies : addComment(u, t, body).status \in {200, 201, 403, 404}

\* C21: a register answered 201 stores the new user with role admin when the
\* body's role is exactly "admin" and with role user for any other role value
\* or none; and with register as the only writer every stored user's role is
\* user or admin.
RoleRequests == {"admin", "Admin", "admin ", "user", "root", ""}

RoleRequestBodies ==
  {[username |-> "cat", email |-> "c@x"]}
    \cup {[username |-> "cat", email |-> "c@x", role |-> r] : r \in RoleRequests}

C21_RoleAdminIffRequested ==
  /\ \A id \in DOMAIN users : users[id].role \in {"user", "admin"}
  /\ \A newId \in UserIds \ DOMAIN users, body \in RegisterBodies \cup RoleRequestBodies :
       LET r == register(newId, body) IN
         IF r.status = 201
           THEN /\ DOMAIN r.users = DOMAIN users \cup {newId}
                /\ \A id \in DOMAIN users : r.users[id] = users[id]
                /\ r.users[newId].role = "admin" <=> Field(body, "role") = "admin"
                /\ r.users[newId].role = "user" <=> Field(body, "role") # "admin"
           ELSE r.users = users

C21_Witness ==
  /\ resp = [op |-> "register", status |-> 201]
  /\ \E id \in DOMAIN users : users[id].role = "admin"
  /\ \E id \in DOMAIN users : users[id].role = "user"

====
